---- MODULE Spec2Model ----
(***************************************************************************)
(* Model of niworkflows/interfaces/nibabel.py: the four nibabel-based      *)
(* interfaces ApplyMask, Binarize, SplitSeries and MergeSeries.            *)
(*                                                                         *)
(* An image is a record [shape, data, affine]: shape is the tuple of axis  *)
(* lengths, data maps every index tuple (0-based) to a voxel value, and     *)
(* affine is a tuple of matrix entries held in fixed point, one unit being *)
(* 1e-8.  A voxel value is an integer or NaN.                              *)
(***************************************************************************)
EXTENDS Integers, Sequences, FiniteSets

VARIABLES op, in_file, in_mask, threshold, in_files, flag, chain,
          err, results, written

vars == <<op, in_file, in_mask, threshold, in_files, flag, chain,
          err, results, written>>

-----------------------------------------------------------------------------
(* Bounds of the input space *)

MaxDim == 2
MaxFrames == 2
MaxInputs == 3

-----------------------------------------------------------------------------
(* Voxel values and arrays *)

NaN == -1

RECURSIVE Indices(_)
Indices(shape) ==
    IF shape = <<>> THEN {<<>>}
    ELSE {Append(p, i) : p \in Indices(SubSeq(shape, 1, Len(shape) - 1)),
                         i \in 0..(shape[Len(shape)] - 1)}

RECURSIVE Offset(_, _)
Offset(idx, shape) ==
    IF idx = <<>> THEN 0
    ELSE idx[1] + shape[1] * Offset(Tail(idx), Tail(shape))

Image(shape, pat, aff) ==
    [shape  |-> shape,
     data   |-> [idx \in Indices(shape) |-> pat[(Offset(idx, shape) % Len(pat)) + 1]],
     affine |-> aff]

NoImage == [shape |-> <<0>>, data |-> <<>>, affine |-> <<>>]

Ndim(img) == Len(img.shape)

-----------------------------------------------------------------------------
(* Outcomes *)

NoErr       == "none"
ErrSize     == "ValueError: Image and mask sizes do not match."
ErrAffine   == "ValueError: Image and mask affines are not similar enough."
ErrSplitDim == "RuntimeError: Input image image is nD."
ErrMergeDim == "ValueError: Input image has an incorrect number of dimensions"
ErrConcat   == "ValueError: concat_images"
ErrName     == "NameError: name 'Path' is not defined"

FileName(suffix, idx) == [suffix |-> suffix, idx |-> idx]

File(name, img) == [name |-> name, img |-> img]

-----------------------------------------------------------------------------
(* numpy / nibabel helpers used by the interfaces *)

(* Variant with an inclusive threshold. *)
GreaterOrEqual(v, t) == v # NaN /\ v >= t

(* data > threshold; a comparison with NaN is False. *)
GreaterThan(v, t) == v # NaN /\ v > t

(* Variant that leaves the voxel unmasked. *)
TimesUnmasked(v, b) == v

(* voxel * bool: v * 1 = v, v * 0 = 0 for finite v, NaN * 0 = NaN. *)
Times(v, b) == IF b THEN v ELSE IF v = NaN THEN NaN ELSE 0

Abs(x) == IF x < 0 THEN -x ELSE x

(* numpy.allclose(a, b): |a - b| <= atol + rtol * |b| with atol = 1e-8 (one
   unit) and rtol = 1e-5; for integers x and y, x <= y / 100000 exactly when
   x <= y \div 100000. *)
Atol == 1
RtolInv == 100000

AllClose(a, b) ==
    /\ Len(a) = Len(b)
    /\ \A k \in 1..Len(a) : Abs(a[k] - b[k]) <= Atol + (Abs(b[k]) \div RtolInv)

(* nibabel.squeeze_image drops the trailing axes of length 1 beyond the
   third; a shape of fewer than four axes is returned as it is. *)
RECURSIVE SqueezeLen(_, _)
SqueezeLen(shape, slen) ==
    IF slen > 3 /\ shape[slen] = 1 THEN SqueezeLen(shape, slen - 1) ELSE slen

squeeze_image(img) ==
    IF Ndim(img) < 4 THEN img
    ELSE LET slen == SqueezeLen(img.shape, Ndim(img))
             shape == SubSeq(img.shape, 1, slen)
             pad == [k \in 1..(Ndim(img) - slen) |-> 0]
         IN [shape  |-> shape,
             data   |-> [idx \in Indices(shape) |-> img.data[idx \o pad]],
             affine |-> img.affine]

(* nibabel.four_to_three: the 3-D slices along the 4th axis, in order, each
   with the affine of the 4-D image. *)
four_to_three(img) ==
    LET shape3 == SubSeq(img.shape, 1, 3)
    IN [i \in 1..img.shape[4] |->
            [shape  |-> shape3,
             data   |-> [idx \in Indices(shape3) |-> img.data[Append(idx, i - 1)]],
             affine |-> img.affine]]

(* nibabel.concat_images: every image must have the shape of the first and
   exactly its affine; the images are stacked along a new last axis. *)
concat_error(imgs) ==
    IF Len(imgs) = 0 THEN ErrConcat
    ELSE IF \E i \in 1..Len(imgs) :
                \/ imgs[i].shape # imgs[1].shape
                \/ imgs[i].affine # imgs[1].affine
         THEN ErrConcat
         ELSE NoErr

concat_images(imgs) ==
    LET shape == Append(imgs[1].shape, Len(imgs))
        n == Len(shape)
    IN [shape  |-> shape,
        data   |-> [idx \in Indices(shape) |->
                        imgs[idx[n] + 1].data[SubSeq(idx, 1, n - 1)]],
        affine |-> imgs[1].affine]

(* The format {i:03}: decimal digits, zero-padded to at least three. *)
RECURSIVE Digits(_)
Digits(i) == IF i < 10 THEN <<i>> ELSE Append(Digits(i \div 10), i % 10)

RECURSIVE ZeroPad(_, _)
ZeroPad(s, width) == IF Len(s) >= width THEN s ELSE ZeroPad(<<0>> \o s, width)

IdxWidth == 3

Idx(i) == ZeroPad(Digits(i), IdxWidth)

(* The module imports numpy, nibabel, nipype.logging, fname_presuffix and
   names of nipype.interfaces.base; it never imports Path, so evaluating
   Path(...) raises NameError. *)
PathDefined == FALSE

-----------------------------------------------------------------------------
(* ApplyMask._run_interface *)

Prefix3(shape) == SubSeq(shape, 1, IF Len(shape) < 3 THEN Len(shape) ELSE 3)

(* Variant that compares the whole shape of the image. *)
SizesMatchWhole(img, msknii) == img.shape = msknii.shape

(* img.dataobj.shape[:3] != msk.shape: the whole shape of the mask. *)
SizesMatch(img, msknii) == Prefix3(img.shape) = msknii.shape

(* Variant without the affine check. *)
ValidateMaskSizeOnly(img, msknii) ==
    IF ~SizesMatch(img, msknii) THEN ErrSize ELSE NoErr

ValidateMask(img, msknii) ==
    IF ~SizesMatch(img, msknii) THEN ErrSize
    ELSE IF ~AllClose(img.affine, msknii.affine) THEN ErrAffine
    ELSE NoErr

(* msk[..., np.newaxis] when the image has one more axis than the mask: the
   mask voxel at the index without its last component. *)
MaskIndex(img, msknii, idx) ==
    IF Ndim(img) = Ndim(msknii) + 1 THEN SubSeq(idx, 1, Len(idx) - 1) ELSE idx

Masked(img, msknii, t) ==
    LET msk == [i \in DOMAIN msknii.data |-> GreaterThan(msknii.data[i], t)]
    IN [shape  |-> img.shape,
        data   |-> [idx \in Indices(img.shape) |->
                        Times(img.data[idx], msk[MaskIndex(img, msknii, idx)])],
        affine |-> img.affine]

(* Variant that writes the output file before validating. *)
ApplyMaskRunEarlyWrite(img, msknii, t) ==
    LET out_file == FileName("_masked", <<>>)
    IN [err     |-> ValidateMask(img, msknii),
        results |-> <<out_file>>,
        written |-> <<File(out_file, img)>>]

ApplyMaskRun(img, msknii, t) ==
    LET out_file == FileName("_masked", <<>>)
        e == ValidateMask(img, msknii)
    IN [err     |-> e,
        results |-> <<out_file>>,
        written |-> IF e = NoErr
                    THEN <<File(out_file, Masked(img, msknii, t))>>
                    ELSE <<>>]

-----------------------------------------------------------------------------
(* Binarize._run_interface *)

BinarizeRun(img, thresh_low) ==
    LET out_file == FileName("_masked", <<>>)
        out_mask == FileName("_mask", <<>>)
        mask == [idx \in DOMAIN img.data |-> GreaterThan(img.data[idx], thresh_low)]
        masked == [img EXCEPT !.data =
                      [idx \in DOMAIN img.data |->
                          IF ~mask[idx] THEN 0 ELSE img.data[idx]]]
        maskimg == [img EXCEPT !.data =
                      [idx \in DOMAIN img.data |-> IF mask[idx] THEN 1 ELSE 0]]
    IN [err     |-> NoErr,
        results |-> <<out_file, out_mask>>,
        written |-> <<File(out_file, masked), File(out_mask, maskimg)>>]

-----------------------------------------------------------------------------
(* SplitSeries._run_interface *)

SplitSeriesRun(img, accept_3D) ==
    LET filenii == squeeze_image(img)
        ndim == Ndim(filenii)
    IN IF ndim # 4
       THEN IF accept_3D /\ ndim = 3
            THEN IF PathDefined
                 THEN LET out_file == FileName("_idx-", <<0, 0, 0>>)
                      IN [err     |-> NoErr,
                          results |-> <<out_file>>,
                          written |-> <<File(out_file, filenii)>>]
                 ELSE [err |-> ErrName, results |-> <<>>, written |-> <<>>]
            ELSE [err |-> ErrSplitDim, results |-> <<>>, written |-> <<>>]
       ELSE LET files_3d == four_to_three(filenii)
            IN IF PathDefined \/ Len(files_3d) = 0
               THEN [err     |-> NoErr,
                     results |-> [i \in 1..Len(files_3d) |->
                                     FileName("_idx-", Idx(i - 1))],
                     written |-> [i \in 1..Len(files_3d) |->
                                     File(FileName("_idx-", Idx(i - 1)), files_3d[i])]]
               ELSE [err |-> ErrName, results |-> <<>>, written |-> <<>>]

-----------------------------------------------------------------------------
(* MergeSeries._run_interface *)

(* Variant that ignores allow_4D. *)
Accepts4DAlways(allow_4D, filenii) == Ndim(filenii) = 4

Accepts4D(allow_4D, filenii) == allow_4D /\ Ndim(filenii) = 4

(* Variant that puts the frames of a 4-D input in front. *)
ExtendFront(nii_list, frames) == frames \o nii_list

Extend(nii_list, frames) == nii_list \o frames

RECURSIVE MergeLoop(_, _, _, _)
MergeLoop(files, allow_4D, k, nii_list) ==
    IF k > Len(files) THEN [err |-> NoErr, nii_list |-> nii_list]
    ELSE LET filenii == squeeze_image(files[k])
         IN IF Ndim(filenii) = 3
            THEN MergeLoop(files, allow_4D, k + 1, Append(nii_list, filenii))
            ELSE IF Accepts4D(allow_4D, filenii)
            THEN MergeLoop(files, allow_4D, k + 1,
                           Extend(nii_list, four_to_three(filenii)))
            ELSE [err |-> ErrMergeDim, nii_list |-> nii_list]

MergeSeriesRun(files, allow_4D) ==
    LET loop == MergeLoop(files, allow_4D, 1, <<>>)
        out_file == FileName("_merged", <<>>)
    IN IF loop.err # NoErr
       THEN [err |-> loop.err, results |-> <<>>, written |-> <<>>]
       ELSE IF concat_error(loop.nii_list) # NoErr
       THEN [err |-> concat_error(loop.nii_list), results |-> <<>>, written |-> <<>>]
       ELSE [err     |-> NoErr,
             results |-> <<out_file>>,
             written |-> <<File(out_file, concat_images(loop.nii_list))>>]

-----------------------------------------------------------------------------
(* Inputs *)

AffineBase == <<100000000, 0>>
AffineNear == <<100000500, 0>>
AffineFar  == <<100000000, 2000>>
Affines == {AffineBase, AffineNear, AffineFar}

SpatialShapes == {<<d, 1, 1>> : d \in 1..MaxDim} \cup {<<1, d, 1>> : d \in 1..MaxDim}

GridShapes ==
    SpatialShapes \cup {Append(s, n) : s \in SpatialShapes, n \in 1..MaxFrames}

ImageValues == {0, 1, 2, NaN}
MaskValues == {0, 1, 2}
Thresholds == {0, 1}

Images ==
    {Image(s, <<u, v, w>>, a) : s \in GridShapes, u \in ImageValues,
                                v \in ImageValues, w \in ImageValues,
                                a \in {AffineBase, AffineNear}}

Masks ==
    {Image(s, <<v, w>>, a) : s \in GridShapes, v \in MaskValues,
                             w \in MaskValues, a \in Affines}

BinarizeImages == {img \in Images : img.affine = AffineBase}

Volumes ==
    {Image(<<2, 1, 1>>, p, AffineBase) : p \in {<<0, 1>>, <<1, 0>>, <<1, 1>>}}
    \cup {Image(<<2, 1, 1>>, <<0, 1>>, AffineFar), Image(<<1, 1, 1>>, <<1>>, AffineBase)}

Series ==
    {Image(<<2, 1, 1, n>>, p, AffineBase) :
        n \in 2..MaxFrames, p \in {<<0, 1, 2>>, <<2, 0, 0>>}}
    \cup {Image(<<2, 1, 1, 1>>, <<2, 0>>, AffineBase),
          Image(<<2, 1, 1, 2, 1>>, <<1, 2, 0>>, AffineBase)}

Others ==
    {Image(<<2, 1, 1, 1, 2>>, <<0, 1, 2>>, AffineBase),
     Image(<<2, 1>>, <<0, 1>>, AffineBase)}

SeriesImages == Volumes \cup Series \cup Others

FileLists == UNION {[1..n -> SeriesImages] : n \in 1..MaxInputs}

-----------------------------------------------------------------------------
(* The state machine.  The interfaces keep nothing between runs, so every  *)
(* run starts from the initial state; the one composition modelled is      *)
(* SplitSeries reading the file a successful MergeSeries has written.      *)

Init ==
    /\ op = "none"
    /\ in_file = NoImage
    /\ in_mask = NoImage
    /\ threshold = 0
    /\ in_files = <<>>
    /\ flag = FALSE
    /\ chain = <<>>
    /\ err = NoErr
    /\ results = <<>>
    /\ written = <<>>

Outcome(r) ==
    /\ err' = r.err
    /\ results' = r.results
    /\ written' = r.written

ApplyMask ==
    /\ op = "none"
    /\ \E img \in Images, msknii \in Masks, t \in Thresholds :
        /\ op' = "apply_mask"
        /\ in_file' = img
        /\ in_mask' = msknii
        /\ threshold' = t
        /\ in_files' = <<>>
        /\ flag' = FALSE
        /\ chain' = <<>>
        /\ Outcome(ApplyMaskRun(img, msknii, t))

Binarize ==
    /\ op = "none"
    /\ \E img \in BinarizeImages, t \in Thresholds :
        /\ op' = "binarize"
        /\ in_file' = img
        /\ in_mask' = NoImage
        /\ threshold' = t
        /\ in_files' = <<>>
        /\ flag' = FALSE
        /\ chain' = <<>>
        /\ Outcome(BinarizeRun(img, t))

SplitFrom(img, accept_3D, merged) ==
    /\ op' = "split"
    /\ in_file' = img
    /\ in_mask' = NoImage
    /\ threshold' = 0
    /\ in_files' = <<>>
    /\ flag' = accept_3D
    /\ chain' = merged
    /\ Outcome(SplitSeriesRun(img, accept_3D))

SplitSeries ==
    \E accept_3D \in BOOLEAN :
        \/ /\ op = "none"
           /\ \E img \in SeriesImages : SplitFrom(img, accept_3D, <<>>)
        \/ /\ op = "merge"
           /\ err = NoErr
           /\ SplitFrom(written[1].img, accept_3D, in_files)

MergeSeries ==
    /\ op = "none"
    /\ \E files \in FileLists, allow_4D \in BOOLEAN :
        /\ op' = "merge"
        /\ in_file' = NoImage
        /\ in_mask' = NoImage
        /\ threshold' = 0
        /\ in_files' = files
        /\ flag' = allow_4D
        /\ chain' = <<>>
        /\ Outcome(MergeSeriesRun(files, allow_4D))

Next == ApplyMask \/ Binarize \/ SplitSeries \/ MergeSeries

Spec == Init /\ [][Next]_vars

-----------------------------------------------------------------------------
(* Vocabulary of the properties *)

ShapeMismatch == {ErrSize}
GeometryMismatch == {ErrAffine, ErrConcat}
DimensionError == {ErrSplitDim, ErrMergeDim}
ValidationErrors == ShapeMismatch \cup GeometryMismatch \cup DimensionError

Spatial(idx) == SubSeq(idx, 1, 3)

SqueezedNdim(img) == Ndim(squeeze_image(img))

Frame(img, i) ==
    [shape  |-> Spatial(img.shape),
     data   |-> [idx \in Indices(Spatial(img.shape)) |-> img.data[Append(idx, i)]],
     affine |-> img.affine]

FramesOf(img) ==
    IF SqueezedNdim(img) = 3 THEN <<squeeze_image(img)>>
    ELSE [i \in 1..squeeze_image(img).shape[4] |-> Frame(squeeze_image(img), i - 1)]

RECURSIVE AllFrames(_, _)
AllFrames(files, k) ==
    IF k > Len(files) THEN <<>> ELSE FramesOf(files[k]) \o AllFrames(files, k + 1)

MaskedAsStated(zero_for_nan) ==
    /\ err = NoErr
    /\ Len(written) = 1
    /\ written[1].img.shape = in_file.shape
    /\ \A idx \in Indices(in_file.shape) :
          LET v == in_file.data[idx]
              m == in_mask.data[Spatial(idx)]
              o == written[1].img.data[idx]
          IN IF m > threshold THEN o = v
             ELSE IF v = NaN /\ ~zero_for_nan THEN o = NaN
             ELSE o = 0

-----------------------------------------------------------------------------
(* C1 as stated: whenever the first three axes of image and mask are equal
   and the affines are close, apply_mask succeeds and the output is the image
   where the mask exceeds the threshold and 0 everywhere else. *)
C1_AsStated ==
    (/\ op = "apply_mask"
     /\ Prefix3(in_file.shape) = Prefix3(in_mask.shape)
     /\ AllClose(in_file.affine, in_mask.affine))
    => MaskedAsStated(TRUE)

(* C1 amended: for a 3-D or 4-D image and a mask whose whole shape equals the
   image's first three axes (a 3-D mask), with close affines, apply_mask
   succeeds; the output equals the image where the mask exceeds the threshold
   (strictly), over every index of a trailing 4th axis, and elsewhere it is
   the image times zero: 0 for a finite voxel, NaN for a non-finite one. *)
C1_MaskedOutput ==
    (/\ op = "apply_mask"
     /\ Prefix3(in_file.shape) = in_mask.shape
     /\ AllClose(in_file.affine, in_mask.affine))
    => MaskedAsStated(FALSE)

C1_Witness ==
    /\ op = "apply_mask"
    /\ err = NoErr
    /\ Ndim(in_file) = 4
    /\ Ndim(in_mask) = 3
    /\ in_file.shape[4] >= 2
    /\ \E i, j \in DOMAIN in_mask.data :
          /\ in_mask.data[i] > threshold
          /\ in_mask.data[j] = threshold
          /\ \A n \in 0..(in_file.shape[4] - 1) :
                /\ in_file.data[Append(i, n)] > 0
                /\ written[1].img.data[Append(i, n)] = in_file.data[Append(i, n)]
                /\ in_file.data[Append(j, n)] > 0
                /\ written[1].img.data[Append(j, n)] = 0

(* C2 as stated: apply_mask fails with ShapeMismatch exactly when the first
   three axes of the image differ from the first three axes of the mask. *)
C2_AsStated ==
    op = "apply_mask" =>
        (err \in ShapeMismatch <=> Prefix3(in_file.shape) # Prefix3(in_mask.shape))

(* C2 amended: apply_mask fails with ShapeMismatch exactly when the first
   three axes of the image differ from the whole shape of the mask, whatever
   the voxel values, threshold and affines are; a 4-D mask therefore always
   fails, also when image and mask are both 4-D with equal shapes. *)
C2_ShapeMismatch ==
    op = "apply_mask" =>
        (err \in ShapeMismatch <=> Prefix3(in_file.shape) # in_mask.shape)

C2_Witness ==
    /\ op = "apply_mask"
    /\ err \in ShapeMismatch
    /\ Ndim(in_mask) = 3
    /\ Ndim(in_file) = 4
    /\ in_file.affine = in_mask.affine
    /\ written = <<>>

(* C3 as stated: with matching spatial shapes (first three axes), apply_mask
   fails with GeometryMismatch whenever the affines differ beyond tolerance,
   never when they are within it, and the failure differs from
   ShapeMismatch. *)
C3_AsStated ==
    op = "apply_mask" =>
        /\ (Prefix3(in_file.shape) = Prefix3(in_mask.shape)
               /\ ~AllClose(in_file.affine, in_mask.affine))
           => err = ErrAffine
        /\ AllClose(in_file.affine, in_mask.affine) => err # ErrAffine
        /\ ErrAffine \notin ShapeMismatch

(* C3 amended: when the mask's whole shape equals the image's first three
   axes, apply_mask fails with GeometryMismatch whenever the affines differ
   beyond the tolerance of numpy.allclose; within tolerance it never does; the
   failure is told from ShapeMismatch by its message (both are ValueError). *)
C3_GeometryMismatch ==
    op = "apply_mask" =>
        /\ (Prefix3(in_file.shape) = in_mask.shape
               /\ ~AllClose(in_file.affine, in_mask.affine))
           => err = ErrAffine
        /\ AllClose(in_file.affine, in_mask.affine) => err # ErrAffine
        /\ ErrAffine \notin ShapeMismatch

C3_Witness ==
    /\ op = "apply_mask"
    /\ err = ErrAffine
    /\ Prefix3(in_file.shape) = in_mask.shape
    /\ in_file.affine = AffineBase
    /\ in_mask.affine = AffineFar

(* C4: binarize never fails; mask_image is 1 where the image exceeds the
   threshold (strictly) and 0 elsewhere, masked_image is the image where the
   mask is 1 and 0 elsewhere; a voxel equal to the threshold is 0 in both. *)
C4_Binarize ==
    op = "binarize" =>
        /\ err = NoErr
        /\ Len(written) = 2
        /\ written[1].name.suffix = "_masked"
        /\ written[2].name.suffix = "_mask"
        /\ written[1].img.shape = in_file.shape
        /\ written[2].img.shape = in_file.shape
        /\ \A idx \in Indices(in_file.shape) :
              LET v == in_file.data[idx]
                  m == written[2].img.data[idx]
                  o == written[1].img.data[idx]
              IN /\ m \in {0, 1}
                 /\ m = 1 <=> (v # NaN /\ v > threshold)
                 /\ o = IF m = 1 THEN v ELSE 0
                 /\ v = threshold => (m = 0 /\ o = 0)

C4_Witness ==
    /\ op = "binarize"
    /\ threshold > 0
    /\ \E i, j, k \in DOMAIN in_file.data :
          /\ in_file.data[i] = threshold
          /\ written[1].img.data[i] = 0
          /\ written[2].img.data[i] = 0
          /\ in_file.data[j] > threshold
          /\ written[1].img.data[j] = in_file.data[j]
          /\ written[2].img.data[j] = 1
          /\ in_file.data[k] = NaN
          /\ written[2].img.data[k] = 0

(* C5: split(merge([A, B, C])) for distinct 3-D volumes A, B, C of identical
   shape and affine succeeds and yields A, B, C in that order, labelled 000,
   001, 002. *)
C5_RoundTrip ==
    (/\ op = "split"
     /\ Len(chain) = 3
     /\ \A i \in 1..3 : Ndim(chain[i]) = 3
     /\ \A i, j \in 1..3 : i # j => chain[i] # chain[j]
     /\ \A i \in 1..3 : chain[i].shape = chain[1].shape
                          /\ chain[i].affine = chain[1].affine)
    => /\ err = NoErr
       /\ Len(written) = 3
       /\ \A i \in 1..3 : /\ written[i].img = chain[i]
                          /\ written[i].name.idx = <<0, 0, i - 1>>

(* C6: split of an input that is 3-D after squeezing fails with
   DimensionError when accept_3D is false and returns the squeezed volume
   alone, labelled 000, when accept_3D is true; an input that is neither 3-D
   nor 4-D after squeezing fails with DimensionError either way. *)
C6_Split3D ==
    op = "split" =>
        /\ (SqueezedNdim(in_file) = 3 /\ ~flag) => err \in DimensionError
        /\ (SqueezedNdim(in_file) = 3 /\ flag) =>
              /\ err = NoErr
              /\ Len(written) = 1
              /\ written[1].img = squeeze_image(in_file)
              /\ written[1].name.idx = <<0, 0, 0>>
        /\ SqueezedNdim(in_file) \notin {3, 4} => err \in DimensionError

(* C7: merge with allow_4D false fails with DimensionError whenever some
   input, at any position, is 4-D after squeezing; with either value of
   allow_4D it fails with DimensionError whenever some input is neither 3-D
   nor 4-D after squeezing. *)
C7_MergeDimension ==
    op = "merge" =>
        /\ (~flag /\ \E k \in 1..Len(in_files) : SqueezedNdim(in_files[k]) = 4)
           => err \in DimensionError
        /\ (\E k \in 1..Len(in_files) : SqueezedNdim(in_files[k]) \notin {3, 4})
           => err \in DimensionError

C7_Witness ==
    /\ op = "merge"
    /\ ~flag
    /\ Len(in_files) = 3
    /\ SqueezedNdim(in_files[1]) = 3
    /\ SqueezedNdim(in_files[2]) = 3
    /\ SqueezedNdim(in_files[3]) = 4
    /\ err \in DimensionError

(* C8: a run of any of the four operations that ends in ShapeMismatch,
   GeometryMismatch or DimensionError has written no output image. *)
C8_NoWriteOnValidationError ==
    err \in ValidationErrors => written = <<>>

C8_Witness ==
    /\ op = "apply_mask"
    /\ err = ErrAffine
    /\ results # <<>>
    /\ written = <<>>

(* C9: split of an input that is 4-D after squeezing, with N frames, writes
   exactly N volumes; the i-th is the slice at 4th-axis index i with the
   input's affine, labelled with the zero-padded three-digit index i. *)
C9_SplitFrames ==
    (op = "split" /\ SqueezedNdim(in_file) = 4) =>
        /\ err = NoErr
        /\ Len(written) = squeeze_image(in_file).shape[4]
        /\ \A i \in 1..Len(written) :
              /\ written[i].img = Frame(squeeze_image(in_file), i - 1)
              /\ written[i].name.idx = <<0, 0, i - 1>>

(* C10: when merge succeeds with allow_4D true, the frames of the output
   along its last axis are the concatenation, in input order, of each
   input's frames (a 3-D input is one frame, a 4-D input contributes its
   frames in their own order); the frame count is the sum of the inputs'. *)
C10_MergeOrder ==
    (op = "merge" /\ flag /\ err = NoErr) =>
        LET expected == AllFrames(in_files, 1)
            out == written[1].img
        IN /\ Len(written) = 1
           /\ Ndim(out) = 4
           /\ out.shape[4] = Len(expected)
           /\ \A j \in 1..Len(expected) : Frame(out, j - 1) = expected[j]

C10_Witness ==
    /\ op = "merge"
    /\ flag
    /\ err = NoErr
    /\ Len(in_files) = 3
    /\ SqueezedNdim(in_files[1]) = 3
    /\ SqueezedNdim(in_files[2]) = 4
    /\ SqueezedNdim(in_files[3]) = 3
    /\ written[1].img.shape[4] = 4
    /\ \A i, j \in 0..3 : i # j => Frame(written[1].img, i) # Frame(written[1].img, j)

=============================================================================
